---- MODULE Spec2Model ----
(***************************************************************************)
(* EDDM (Early drift detection method), frouros/supervised/ddm_based/      *)
(* eddm.py: the configuration class EDDMConfig and the detector EDDM.      *)
(*                                                                         *)
(* Floats are modelled in fixed point: a float f is the integer            *)
(* round(f * SCALE).  num_instances, num_misclassified_instances and the   *)
(* two distance errors only ever hold whole numbers and are kept as plain  *)
(* integers.  float("-inf") is NegInf, below every value a threshold can   *)
(* take.  An attribute that was never assigned is the empty sequence <<>>, *)
(* an assigned one the one-element sequence <<value>>.                     *)
(***************************************************************************)
EXTENDS Integers, Sequences, FiniteSets, TLC

\* ------------------------------------------------------------------ bounds
SCALE == 100
MaxBatch == 2
MaxQueue == 2
MaxInstances == 5
StreamLength == 100

\* the classes of the true labels, and the classes the classifier predicts
Labels == {0, 1}
PredictedLabels == {1}

\* ------------------------------------------------------- float arithmetic
NegInf == -1000000000

\* a / b rounded to the nearest integer (b > 0), as float division rounds
DivRound(a, b) == (2 * a + b) \div (2 * b)

\* floor of the square root of x >= 0 (np.sqrt), by bisection on lo..hi
RECURSIVE SqrtBetween(_, _, _)
SqrtBetween(x, lo, hi) ==
    IF lo >= hi THEN lo
    ELSE LET mid == (lo + hi + 1) \div 2
         IN  IF mid * mid <= x THEN SqrtBetween(x, mid, hi)
                               ELSE SqrtBetween(x, lo, mid - 1)

\* np.sqrt, rounded to the nearest integer
Sqrt(x) ==
    LET r == SqrtBetween(x, 0, 40000)
    IN  IF x - r * r > r THEN r + 1 ELSE r

\* the float nan: every ordered comparison with it is false
NaN == -999999999
Less(a, b) == a # NaN /\ b # NaN /\ a < b

\* x hundredths as a fixed-point float
Hundredths(x) == (x * SCALE) \div 100

\* ============================================================ EDDMConfig
VARIABLES
    config,          \* the EDDMConfig object the detector reads
    config_error     \* outcome of the last construction / assignment

\* a setter either stores the value or raises ValueError and stores nothing
Stored(cfg) == [raised |-> FALSE, cfg |-> cfg]
Raised(cfg) == [raised |-> TRUE, cfg |-> cfg]

\* DDMBaseConfig.min_num_instances (base class)
MinNumInstancesSetter(cfg, value) ==
    IF value < 0 THEN Raised(cfg)
    ELSE Stored([cfg EXCEPT !.min_num_instances = value])

AlphaSetter(cfg, value) == Stored([cfg EXCEPT !.alpha = value])

BetaSetter(cfg, value) ==
    IF value <= 0 THEN Raised(cfg)
    ELSE IF value >= cfg.alpha THEN Raised(cfg)
    ELSE Stored([cfg EXCEPT !.beta = value])

LevelSetter(cfg, value) ==
    IF value <= 0 THEN Raised(cfg)
    ELSE Stored([cfg EXCEPT !.level = value])

MinNumMisclassifiedInstancesSetter(cfg, value) ==
    IF value < 0 THEN Raised(cfg)
    ELSE Stored([cfg EXCEPT !.min_num_misclassified_instances = value])

\* the attributes of an object under construction, before any assignment
Blank == [alpha |-> 0, beta |-> 0, level |-> 0,
          min_num_misclassified_instances |-> 0, min_num_instances |-> 0]

\* EDDMConfig.__init__: the assignments in source order; the first setter
\* that raises aborts the construction
EDDMConfigInit(alpha, beta, level, min_mis, min_inst) ==
    LET s1 == MinNumInstancesSetter(Blank, min_inst)
        s2 == IF s1.raised THEN s1 ELSE AlphaSetter(s1.cfg, alpha)
        s3 == IF s2.raised THEN s2 ELSE BetaSetter(s2.cfg, beta)
        s4 == IF s3.raised THEN s3 ELSE LevelSetter(s3.cfg, level)
        s5 == IF s4.raised THEN s4
              ELSE MinNumMisclassifiedInstancesSetter(s4.cfg, min_mis)
    IN  s5

\* argument values tried by constructions and assignments
AlphaValues == {Hundredths(0), Hundredths(50), Hundredths(95), Hundredths(100)}
BetaValues == {Hundredths(0), Hundredths(50), Hundredths(90), Hundredths(95)}
LevelValues == {Hundredths(0), Hundredths(100), Hundredths(200)}
MinMisValues == {-1, 0, 2}
MinInstValues == {-1, 0, 3}

\* every configuration a construction can return
Constructible ==
    {r.cfg : r \in {c \in {EDDMConfigInit(a, b, l, mm, mi) :
                            a \in AlphaValues, b \in BetaValues,
                            l \in LevelValues, mm \in MinMisValues,
                            mi \in MinInstValues} : ~c.raised}}

\* the configurations detectors are run with
DetectorConfigs ==
    {c \in Constructible :
        /\ c.alpha = Hundredths(95)
        /\ c.level = Hundredths(200)
        /\ \/ c.beta = Hundredths(90)
           \/ /\ c.beta = Hundredths(50)
              /\ c.min_num_misclassified_instances = 0
              /\ c.min_num_instances = 0}

\* ================================================================== EDDM
VARIABLES
    fitted,                        \* check_is_fitted(self.estimator) passes
    delayed_predictions,           \* deque of [X, y_pred], oldest first
    num_instances,
    ground_truth,
    predictions,
    actual_distance_error,
    distance_threshold,
    last_distance_error,
    max_distance_threshold,
    mean_distance_error,
    num_misclassified_instances,
    old_mean_distance_error,
    variance_distance_error,
    std_distance_error,            \* <<>> until first assigned
    registered,                    \* batches pushed since construction / reset
    consumed,                      \* batches popped since construction / reset
    succeeded,                     \* updates that returned, since then
    call,                          \* the last call made on the detector
    response,                      \* what that call returned or raised
    drift_reported                 \* an update returned drift since then

configVars == <<config, config_error>>
baseVars == <<delayed_predictions, num_instances, ground_truth, predictions>>
eddmVars == <<actual_distance_error, distance_threshold, last_distance_error,
              max_distance_threshold, mean_distance_error,
              num_misclassified_instances, old_mean_distance_error,
              variance_distance_error, std_distance_error>>
traceVars == <<registered, consumed, succeeded, call, response,
              drift_reported>>
vars == <<configVars, fitted, baseVars, eddmVars, traceVars>>

\* the batches of n values of S, and the batches of any admitted length
BatchesOfLen(S, n) == [1..n -> S]
Batches(S) == UNION {BatchesOfLen(S, n) : n \in 1..MaxBatch}

\* the running state as one record
Detector ==
    [delayed_predictions |-> delayed_predictions,
     num_instances |-> num_instances,
     ground_truth |-> ground_truth,
     predictions |-> predictions,
     actual_distance_error |-> actual_distance_error,
     distance_threshold |-> distance_threshold,
     last_distance_error |-> last_distance_error,
     max_distance_threshold |-> max_distance_threshold,
     mean_distance_error |-> mean_distance_error,
     num_misclassified_instances |-> num_misclassified_instances,
     old_mean_distance_error |-> old_mean_distance_error,
     variance_distance_error |-> variance_distance_error,
     std_distance_error |-> std_distance_error,
     raised |-> FALSE]             \* a setter raised during the current call

\* DDMBasedEstimator.__init__ (base class): the fields the base class owns
BaseInit ==
    [delayed_predictions |-> <<>>, num_instances |-> 0,
     ground_truth |-> <<>>, predictions |-> <<>>]

\* EDDM.__init__ after super().__init__: std_distance_error is not assigned
EDDMInit ==
    [delayed_predictions |-> BaseInit.delayed_predictions,
     num_instances |-> BaseInit.num_instances,
     ground_truth |-> BaseInit.ground_truth,
     predictions |-> BaseInit.predictions,
     actual_distance_error |-> 0,
     distance_threshold |-> 0,
     last_distance_error |-> 0,
     max_distance_threshold |-> NegInf,
     mean_distance_error |-> 0,
     num_misclassified_instances |-> 0,
     old_mean_distance_error |-> 0,
     variance_distance_error |-> 0,
     std_distance_error |-> <<>>]

\* DDMBasedEstimator._reset (base class)
BaseReset(d) ==
    [d EXCEPT !.delayed_predictions = <<>>, !.num_instances = 0,
              !.ground_truth = <<>>, !.predictions = <<>>]

\* EDDM._reset: std_distance_error keeps whatever it held
EDDMReset(d) ==
    [BaseReset(d) EXCEPT !.actual_distance_error = 0,
                         !.distance_threshold = 0,
                         !.last_distance_error = 0,
                         !.max_distance_threshold = NegInf,
                         !.mean_distance_error = 0,
                         !.num_misclassified_instances = 0,
                         !.old_mean_distance_error = 0,
                         !.variance_distance_error = 0]

\* ---------------------------------------------------------- EDDM.update
\* what a call hands back: the state it leaves, the value returned or the
\* exception raised, the return statement taken, the zone ratio if it was
\* computed, and the hook that ran
Outcome(d, resp, path, p, hook) ==
    [d |-> d, response |-> resp, path |-> path, p |-> p, hook |-> hook]

Raise(d, exception) == Outcome(d, [status |-> exception], "raise", <<>>, "none")

\* deque.popleft(): the oldest entry
PopLeft(q) == [item |-> Head(q), rest |-> Tail(q)]

\* EDDM._response: reads the four numeric attributes; reading an attribute
\* that was never assigned raises AttributeError
Response(d, drift, warning) ==
    IF d.std_distance_error = <<>> THEN [status |-> "AttributeError"]
    ELSE [status |-> "ok", drift |-> drift, warning |-> warning,
          distance_threshold |-> d.distance_threshold,
          max_distance_threshold |-> d.max_distance_threshold,
          mean_distance_error |-> d.mean_distance_error,
          std_distance_error |-> d.std_distance_error[1]]

NormalResponse(d) == Response(d, FALSE, FALSE)

\* np.argwhere(~(y != y_pred))[0]: the first row of the positions where
\* ~(y != y_pred) holds; <<>> stands for the IndexError of an empty argwhere.
\* Positions are 1-based here, 0-based in the source.
MisclassifiedIdxs(y, y_pred) ==
    LET rows == {i \in 1..Len(y_pred) : ~(y[i] # y_pred[i])}
    IN  IF rows = {} THEN <<>>
        ELSE <<CHOOSE i \in rows : \A j \in rows : i <= j>>

\* y[misclassified_idxs]
Take(y, idxs) == [k \in 1..Len(idxs) |-> y[idxs[k]]]

\* num_instances assigned, not incremented
CountInstancesRestart(d, y_pred) ==
    [d EXCEPT !.delayed_predictions = PopLeft(@).rest,
              !.num_instances = Len(y_pred)]

\* X, y_pred = popleft(); num_instances += y_pred.shape[0]
CountInstances(d, y_pred) ==
    [d EXCEPT !.delayed_predictions = PopLeft(@).rest,
              !.num_instances = @ + Len(y_pred)]

\* an assignment through a validating setter: a negative value raises
\* ValueError, and nothing after it in the call is executed
Validated(d, field, value) ==
    LET before == d
    IN  IF before.raised THEN before
        ELSE LET v == value
             IN  IF v < 0 THEN [before EXCEPT !.raised = TRUE]
                 ELSE [before EXCEPT ![field] = v]

\* the std_distance_error setter
ValidatedStd(d, value) ==
    LET before == d
    IN  IF before.raised THEN before
        ELSE LET v == value
             IN  IF v < 0 THEN [before EXCEPT !.raised = TRUE]
                 ELSE [before EXCEPT !.std_distance_error = <<v>>]

\* the counter and the two distance errors
CountMisclassified(d, idxs) ==
    LET d1 == Validated(d, "num_misclassified_instances",
                        d.num_misclassified_instances + Len(idxs))
        d2 == Validated(d1, "last_distance_error", d1.actual_distance_error)
    IN  Validated(d2, "actual_distance_error", d2.num_instances - 1)

\* Welford's method
Welford(d) ==
    LET n == d.num_misclassified_instances
        distance == (d.actual_distance_error - d.last_distance_error) * SCALE
        d1 == Validated(d, "old_mean_distance_error", d.mean_distance_error)
        d2 == Validated(d1, "mean_distance_error",
                        d1.mean_distance_error
                        + DivRound(distance - d1.mean_distance_error, n))
        d3 == Validated(d2, "variance_distance_error",
                        d2.variance_distance_error
                        + DivRound((distance - d2.mean_distance_error)
                                   * (distance - d2.old_mean_distance_error),
                                   SCALE))
    IN  ValidatedStd(d3, IF n > 0
                         THEN Sqrt(DivRound(d3.variance_distance_error * SCALE, n))
                         ELSE 0)

\* self.ground_truth.extend(y); self.predictions.extend(y_pred)
ExtendHistory(d, y, y_pred) ==
    [d EXCEPT !.ground_truth = @ \o y, !.predictions = @ \o y_pred]

\* the threshold computed without the level factor
SetDistanceThresholdNoLevel(d, cfg) ==
    Validated(d, "distance_threshold",
              d.mean_distance_error + d.std_distance_error[1])

\* distance_threshold = mean_distance_error + level * std_distance_error
SetDistanceThreshold(d, cfg) ==
    Validated(d, "distance_threshold",
              d.mean_distance_error
              + DivRound(cfg.level * d.std_distance_error[1], SCALE))

\* the maximum assigned without the comparison
AlwaysExceedsMaximum(d) == TRUE

\* the comparison reversed
FallsBelowMaximum(d) == d.distance_threshold < d.max_distance_threshold

\* if distance_threshold > max_distance_threshold: the maximum is raised
ExceedsMaximum(d) == d.distance_threshold > d.max_distance_threshold
RaiseMaximum(d) == [d EXCEPT !.max_distance_threshold = d.distance_threshold]

\* p = distance_threshold / max_distance_threshold, on numpy floats
ZoneRatio(d) ==
    IF d.max_distance_threshold = NegInf THEN 0
    ELSE IF d.max_distance_threshold = 0 THEN NaN
    ELSE DivRound(d.distance_threshold * SCALE, d.max_distance_threshold)

\* the out-of-control branch leaving warning unset
CheckCaseDriftOnly(p, cfg) ==
    IF Less(p, cfg.beta)
    THEN [drift |-> TRUE, warning |-> FALSE, hook |-> "_drift_case"]
    ELSE IF Less(p, cfg.alpha)
         THEN [drift |-> FALSE, warning |-> TRUE, hook |-> "_warning_case"]
         ELSE [drift |-> FALSE, warning |-> FALSE, hook |-> "_normal_case"]

\* EDDM._check_case, with the hook it invokes
CheckCase(p, cfg) ==
    IF Less(p, cfg.beta)
    THEN [drift |-> TRUE, warning |-> TRUE, hook |-> "_drift_case"]
    ELSE IF Less(p, cfg.alpha)
         THEN [drift |-> FALSE, warning |-> TRUE, hook |-> "_warning_case"]
         ELSE [drift |-> FALSE, warning |-> FALSE, hook |-> "_normal_case"]

\* self._drift_insufficient_samples and self._check_drift_insufficient_samples
\* (base class): whether the fallback is active and reports drift completion
DriftCompleted(fallback) == fallback = "drift_completed"
Fallback == {"inactive", "drift_completed"}

\* the threshold assigned before the min_num_misclassified_instances guard
UpdateBodyThresholdBeforeGuard(d, cfg, y, fallback) ==
    LET y_pred == PopLeft(d.delayed_predictions).item.y_pred
        d1 == CountInstances(d, y_pred)
        idxs == MisclassifiedIdxs(y, y_pred)
    IN  IF idxs = <<>>
        THEN Outcome(d1, NormalResponse(d1), "non_misclassified", <<>>, "none")
        ELSE
        LET d2 == Welford(CountMisclassified(d1, idxs))
        IN  IF d2.raised THEN Raise(d2, "ValueError")
            ELSE IF d2.num_instances < cfg.min_num_instances
            THEN Outcome(d2, NormalResponse(d2), "min_num_instances", <<>>, "none")
            ELSE IF DriftCompleted(fallback)
            THEN Outcome(d2, Response(d2, TRUE, TRUE), "insufficient_samples",
                         <<>>, "none")
            ELSE
            LET d3 == ExtendHistory(d2, Take(y, idxs), Take(y_pred, idxs))
                d4 == SetDistanceThreshold(d3, cfg)
            IN  IF d4.raised THEN Raise(d4, "ValueError")
                ELSE IF d4.num_misclassified_instances
                        < cfg.min_num_misclassified_instances
                THEN Outcome(d4, NormalResponse(d4), "min_num_misclassified",
                             <<>>, "none")
                ELSE IF ExceedsMaximum(d4)
                THEN LET d5 == RaiseMaximum(d4)
                     IN  Outcome(d5, NormalResponse(d5), "new_maximum",
                                 <<>>, "none")
                ELSE LET p == ZoneRatio(d4)
                         c == CheckCase(p, cfg)
                     IN  Outcome(d4, Response(d4, c.drift, c.warning),
                                 "check_case", <<p>>, c.hook)

\* the fallback consulted after the min_num_misclassified_instances guard
UpdateBodyFallbackAfterGuard(d, cfg, y, fallback) ==
    LET y_pred == PopLeft(d.delayed_predictions).item.y_pred
        d1 == CountInstances(d, y_pred)
        idxs == MisclassifiedIdxs(y, y_pred)
    IN  IF idxs = <<>>
        THEN Outcome(d1, NormalResponse(d1), "non_misclassified", <<>>, "none")
        ELSE
        LET d2 == Welford(CountMisclassified(d1, idxs))
        IN  IF d2.raised THEN Raise(d2, "ValueError")
            ELSE IF d2.num_instances < cfg.min_num_instances
            THEN Outcome(d2, NormalResponse(d2), "min_num_instances", <<>>, "none")
            ELSE IF d2.num_misclassified_instances
                    < cfg.min_num_misclassified_instances
            THEN LET d3 == ExtendHistory(d2, Take(y, idxs), Take(y_pred, idxs))
                 IN  Outcome(d3, NormalResponse(d3), "min_num_misclassified",
                             <<>>, "none")
            ELSE IF DriftCompleted(fallback)
            THEN Outcome(d2, Response(d2, TRUE, TRUE), "insufficient_samples",
                         <<>>, "none")
            ELSE
            LET d3 == ExtendHistory(d2, Take(y, idxs), Take(y_pred, idxs))
                d4 == SetDistanceThreshold(d3, cfg)
            IN  IF d4.raised THEN Raise(d4, "ValueError")
                ELSE IF ExceedsMaximum(d4)
                THEN LET d5 == RaiseMaximum(d4)
                     IN  Outcome(d5, NormalResponse(d5), "new_maximum",
                                 <<>>, "none")
                ELSE LET p == ZoneRatio(d4)
                         c == CheckCase(p, cfg)
                     IN  Outcome(d4, Response(d4, c.drift, c.warning),
                                 "check_case", <<p>>, c.hook)

\* update from the popleft on: d has a pending batch
UpdateBody(d, cfg, y, fallback) ==
    LET y_pred == PopLeft(d.delayed_predictions).item.y_pred
        d1 == CountInstances(d, y_pred)
        idxs == MisclassifiedIdxs(y, y_pred)
    IN  IF idxs = <<>>
        THEN Outcome(d1, NormalResponse(d1), "non_misclassified", <<>>, "none")
        ELSE
        LET d2 == Welford(CountMisclassified(d1, idxs))
        IN  IF d2.raised THEN Raise(d2, "ValueError")
            ELSE IF d2.num_instances < cfg.min_num_instances
            THEN Outcome(d2, NormalResponse(d2), "min_num_instances", <<>>, "none")
            ELSE IF DriftCompleted(fallback)
            THEN Outcome(d2, Response(d2, TRUE, TRUE), "insufficient_samples",
                         <<>>, "none")
            ELSE
            LET d3 == ExtendHistory(d2, Take(y, idxs), Take(y_pred, idxs))
            IN  IF d3.num_misclassified_instances
                   < cfg.min_num_misclassified_instances
                THEN Outcome(d3, NormalResponse(d3), "min_num_misclassified",
                             <<>>, "none")
                ELSE
                LET d4 == SetDistanceThreshold(d3, cfg)
                IN  IF d4.raised THEN Raise(d4, "ValueError")
                    ELSE IF ExceedsMaximum(d4)
                    THEN LET d5 == RaiseMaximum(d4)
                         IN  Outcome(d5, NormalResponse(d5), "new_maximum",
                                     <<>>, "none")
                    ELSE LET p == ZoneRatio(d4)
                             c == CheckCase(p, cfg)
                         IN  Outcome(d4, Response(d4, c.drift, c.warning),
                                     "check_case", <<p>>, c.hook)

\* the batch popped and counted before check_is_fitted
UpdateCallPopsFirst(is_fitted, d, cfg, y, fallback) ==
    IF d.delayed_predictions = <<>> THEN Raise(d, "IndexError")
    ELSE IF ~is_fitted
    THEN Raise(CountInstances(d, PopLeft(d.delayed_predictions).item.y_pred),
               "NotFittedError")
    ELSE UpdateBody(d, cfg, y, fallback)

\* num_instances advanced by the labels before popleft
UpdateCallCountsFirst(is_fitted, d, cfg, y, fallback) ==
    IF ~is_fitted THEN Raise(d, "NotFittedError")
    ELSE IF d.delayed_predictions = <<>>
    THEN Raise([d EXCEPT !.num_instances = @ + Len(y)], "IndexError")
    ELSE UpdateBody(d, cfg, y, fallback)

\* EDDM.update: check_is_fitted, then popleft, then the rest
UpdateCall(is_fitted, d, cfg, y, fallback) ==
    IF ~is_fitted THEN Raise(d, "NotFittedError")
    ELSE IF d.delayed_predictions = <<>> THEN Raise(d, "IndexError")
    ELSE UpdateBody(d, cfg, y, fallback)

\* ------------------------------------------------------------- the calls
NoCall(op) ==
    [op |-> op, y |-> <<>>, popped |-> <<>>, path |-> "none", p |-> <<>>,
     hook |-> "none", fallback |-> "none"]

NoResponse == [status |-> "none"]

\* the running state becomes d
Becomes(d) ==
    /\ delayed_predictions' = d.delayed_predictions
    /\ num_instances' = d.num_instances
    /\ ground_truth' = d.ground_truth
    /\ predictions' = d.predictions
    /\ actual_distance_error' = d.actual_distance_error
    /\ distance_threshold' = d.distance_threshold
    /\ last_distance_error' = d.last_distance_error
    /\ max_distance_threshold' = d.max_distance_threshold
    /\ mean_distance_error' = d.mean_distance_error
    /\ num_misclassified_instances' = d.num_misclassified_instances
    /\ old_mean_distance_error' = d.old_mean_distance_error
    /\ variance_distance_error' = d.variance_distance_error
    /\ std_distance_error' = d.std_distance_error

Init ==
    /\ config \in DetectorConfigs
    /\ config_error = "none"
    /\ fitted = FALSE
    /\ delayed_predictions = EDDMInit.delayed_predictions
    /\ num_instances = EDDMInit.num_instances
    /\ ground_truth = EDDMInit.ground_truth
    /\ predictions = EDDMInit.predictions
    /\ actual_distance_error = EDDMInit.actual_distance_error
    /\ distance_threshold = EDDMInit.distance_threshold
    /\ last_distance_error = EDDMInit.last_distance_error
    /\ max_distance_threshold = EDDMInit.max_distance_threshold
    /\ mean_distance_error = EDDMInit.mean_distance_error
    /\ num_misclassified_instances = EDDMInit.num_misclassified_instances
    /\ old_mean_distance_error = EDDMInit.old_mean_distance_error
    /\ variance_distance_error = EDDMInit.variance_distance_error
    /\ std_distance_error = EDDMInit.std_distance_error
    /\ registered = 0
    /\ consumed = 0
    /\ succeeded = 0
    /\ call = NoCall("__init__")
    /\ response = NoResponse
    /\ drift_reported = FALSE

\* the wrapped classifier is fitted
Fit ==
    /\ ~fitted
    /\ fitted' = TRUE
    /\ call' = NoCall("fit")
    /\ response' = NoResponse
    /\ UNCHANGED <<configVars, baseVars, eddmVars, registered, consumed,
                   succeeded, drift_reported>>

\* the number of predictions awaiting their label
RECURSIVE Pending(_)
Pending(q) == IF q = <<>> THEN 0 ELSE Len(Head(q).y_pred) + Pending(Tail(q))

\* registerPrediction: the batch is appended to the tail of the buffer
RegisterPrediction(y_pred) ==
    /\ Len(delayed_predictions) < MaxQueue
    /\ num_instances + Pending(delayed_predictions) + Len(y_pred) <= MaxInstances
    /\ registered' = registered + 1
    /\ delayed_predictions' =
           Append(delayed_predictions, [X |-> registered + 1, y_pred |-> y_pred])
    /\ call' = NoCall("registerPrediction")
    /\ response' = NoResponse
    /\ UNCHANGED <<configVars, fitted, num_instances, ground_truth, predictions,
                   eddmVars, consumed, succeeded, drift_reported>>

\* the labels a caller may hand to update: one per prediction of the oldest
\* pending batch; with nothing pending, where update never reads them, the
\* one-label batches
LabelBatches ==
    IF delayed_predictions = <<>> THEN BatchesOfLen(Labels, 1)
    ELSE BatchesOfLen(Labels, Len(Head(delayed_predictions).y_pred))

Update(y, fallback) ==
    \E out \in {UpdateCall(fitted, Detector, config, y, fallback)} :
    LET pops == Len(out.d.delayed_predictions) < Len(delayed_predictions)
    IN  /\ Becomes(out.d)
        /\ consumed' = IF pops THEN consumed + 1 ELSE consumed
        /\ succeeded' = IF out.response.status = "ok" THEN succeeded + 1
                        ELSE succeeded
        /\ call' = [op |-> "update", y |-> y,
                    popped |-> IF pops
                               THEN <<PopLeft(delayed_predictions).item>>
                               ELSE <<>>,
                    path |-> out.path, p |-> out.p, hook |-> out.hook,
                    fallback |-> fallback]
        /\ response' = out.response
        /\ drift_reported' = (drift_reported
                              \/ (out.response.status = "ok"
                                  /\ out.response.drift))
        /\ UNCHANGED <<configVars, fitted, registered>>

Reset ==
    /\ Becomes(EDDMReset(Detector))
    /\ registered' = 0
    /\ consumed' = 0
    /\ succeeded' = 0
    /\ call' = NoCall("reset")
    /\ response' = NoResponse
    /\ drift_reported' = FALSE
    /\ UNCHANGED <<configVars, fitted>>

Next ==
    \/ Fit
    \/ \E y_pred \in Batches(PredictedLabels) : RegisterPrediction(y_pred)
    \/ \E y \in LabelBatches, fallback \in Fallback : Update(y, fallback)
    \/ Reset

Spec == Init /\ [][Next]_vars

\* -------------------------------------------------- configuration calls
\* the configuration becomes r.cfg unless the call raised
Assigned(r) ==
    /\ config' = IF r.raised THEN config ELSE r.cfg
    /\ config_error' = IF r.raised THEN "ValueError" ELSE "none"

detectorVars == <<fitted, baseVars, eddmVars, traceVars>>

\* config = EDDMConfig(...): a failed construction leaves the old object
Construct(alpha, beta, level, min_mis, min_inst) ==
    /\ Assigned(EDDMConfigInit(alpha, beta, level, min_mis, min_inst))
    /\ UNCHANGED detectorVars

SetAlpha(value) ==
    /\ Assigned(AlphaSetter(config, value))
    /\ UNCHANGED detectorVars

SetBeta(value) ==
    /\ Assigned(BetaSetter(config, value))
    /\ UNCHANGED detectorVars

SetLevel(value) ==
    /\ Assigned(LevelSetter(config, value))
    /\ UNCHANGED detectorVars

SetMinNumMisclassifiedInstances(value) ==
    /\ Assigned(MinNumMisclassifiedInstancesSetter(config, value))
    /\ UNCHANGED detectorVars

SetMinNumInstances(value) ==
    /\ Assigned(MinNumInstancesSetter(config, value))
    /\ UNCHANGED detectorVars

InitConfig ==
    /\ Init!2 /\ Init!3 /\ Init!4 /\ Init!5 /\ Init!6 /\ Init!7 /\ Init!8
    /\ Init!9 /\ Init!10 /\ Init!11 /\ Init!12 /\ Init!13 /\ Init!14
    /\ Init!15 /\ Init!16 /\ Init!17 /\ Init!18 /\ Init!19 /\ Init!20
    /\ Init!21 /\ Init!22
    /\ config \in Constructible

NextConfig ==
    \/ \E a \in AlphaValues, b \in BetaValues, l \in LevelValues,
          mm \in MinMisValues, mi \in MinInstValues : Construct(a, b, l, mm, mi)
    \/ \E v \in AlphaValues : SetAlpha(v)
    \/ \E v \in BetaValues : SetBeta(v)
    \/ \E v \in LevelValues : SetLevel(v)
    \/ \E v \in MinMisValues : SetMinNumMisclassifiedInstances(v)
    \/ \E v \in MinInstValues : SetMinNumInstances(v)

SpecConfig == InitConfig /\ [][NextConfig]_vars

\* ------------------------------------------------------------ scenario C
\* a stream of StreamLength single-instance batches, labelled in arrival
\* order; the positions (0-based) where the prediction differs from the truth
ScenarioCMisclassified == {5, 40, 41, 42}

ScenarioCConfig ==
    EDDMConfigInit(Hundredths(95), Hundredths(90), Hundredths(200), 2, 2).cfg

\* the classifier predicts 1 at every position
ScenarioCPrediction == <<1>>
ScenarioCLabel(position) ==
    IF position \in ScenarioCMisclassified THEN <<0>> ELSE <<1>>

InitScenarioC ==
    /\ Init!2 /\ Init!3 /\ Init!4 /\ Init!5 /\ Init!6 /\ Init!7 /\ Init!8
    /\ Init!9 /\ Init!10 /\ Init!11 /\ Init!12 /\ Init!13 /\ Init!14
    /\ Init!15 /\ Init!16 /\ Init!17 /\ Init!18 /\ Init!19 /\ Init!20
    /\ Init!21 /\ Init!22
    /\ config = ScenarioCConfig

\* the next instance of the stream is predicted
ScenarioCRegister ==
    /\ fitted
    /\ delayed_predictions = <<>>
    /\ num_instances < StreamLength
    /\ registered' = registered + 1
    /\ delayed_predictions' =
           Append(delayed_predictions,
                  [X |-> registered + 1, y_pred |-> ScenarioCPrediction])
    /\ call' = NoCall("registerPrediction")
    /\ response' = NoResponse
    /\ UNCHANGED <<configVars, fitted, num_instances, ground_truth, predictions,
                   eddmVars, consumed, succeeded, drift_reported>>

\* its label arrives; no insufficient-samples fallback is configured
ScenarioCUpdate ==
    /\ delayed_predictions # <<>>
    /\ Update(ScenarioCLabel(num_instances), "inactive")

NextScenarioC ==
    \/ Fit
    \/ ScenarioCRegister
    \/ ScenarioCUpdate

SpecScenarioC == InitScenarioC /\ [][NextScenarioC]_vars

\* ================================================================ claims
\* the last call was an update that got past check_is_fitted and popleft
Consumed == call.op = "update" /\ call.popped # <<>>

\* the last call was an update that reached the zone decision
ZoneDecision == call.op = "update" /\ call.path = "check_case"

\* that update returned (drift, warning)
Returned(drift, warning) ==
    /\ response.status = "ok"
    /\ response.drift = drift
    /\ response.warning = warning

\* no position of the consumed batch has prediction # truth
NoMisclassification ==
    /\ Consumed
    /\ \A i \in 1..Len(call.y) : call.popped[1].y_pred[i] = call.y[i]

\* C1: an update that reaches the zone decision with ratio p returns
\* (drift, warning) = (true, true) exactly when p < beta, (false, true)
\* exactly when beta <= p < alpha, (false, false) exactly when p >= alpha,
\* and runs exactly the hook of that zone.
C1_ThreeZoneDecision ==
    ZoneDecision =>
        LET p == call.p[1]
            below_beta == p # NaN /\ p < config.beta
            below_alpha == p # NaN /\ p < config.alpha
            at_least_alpha == p # NaN /\ p >= config.alpha
            at_least_beta == p # NaN /\ p >= config.beta
        IN  /\ response.status = "ok"
            /\ Returned(TRUE, TRUE) <=> below_beta
            /\ Returned(FALSE, TRUE) <=> (at_least_beta /\ below_alpha)
            /\ Returned(FALSE, FALSE) <=> at_least_alpha
            /\ call.hook = "_drift_case" <=> below_beta
            /\ call.hook = "_warning_case" <=> (at_least_beta /\ below_alpha)
            /\ call.hook = "_normal_case" <=> at_least_alpha

C1_Witness ==
    /\ ZoneDecision
    /\ Returned(FALSE, TRUE)
    /\ call.hook = "_warning_case"
    /\ call.p[1] >= config.beta /\ call.p[1] < config.alpha

\* C2: an update whose batch has no position with prediction # truth
\* returns drift = false and warning = false (stated for the updates in
\* which the insufficient-samples fallback did not report drift completion).
C2_CorrectBatchIsNormal ==
    (NoMisclassification /\ call.path # "insufficient_samples")
        => Returned(FALSE, FALSE)

\* C3: an update whose batch has no position with prediction # truth leaves
\* mean_distance_error, variance_distance_error, max_distance_threshold,
\* num_misclassified_instances and the two distance errors unchanged.
C3_CorrectBatchKeepsStatistics ==
    [][NoMisclassification' =>
          UNCHANGED <<mean_distance_error, variance_distance_error,
                      max_distance_threshold, num_misclassified_instances,
                      actual_distance_error, last_distance_error>>]_vars

\* C4: max_distance_threshold never decreases from one state to the next
\* unless the step is a reset.
C4_MaximumNeverDecreases ==
    [][call'.op # "reset"
          => max_distance_threshold' >= max_distance_threshold]_vars

C4_Witness ==
    /\ ZoneDecision
    /\ distance_threshold < max_distance_threshold

\* C5: after reset every running-state field has the value it has right
\* after construction.
C5_ResetRestoresConstruction ==
    call.op = "reset" =>
        /\ num_instances = EDDMInit.num_instances
        /\ num_misclassified_instances = EDDMInit.num_misclassified_instances
        /\ actual_distance_error = EDDMInit.actual_distance_error
        /\ last_distance_error = EDDMInit.last_distance_error
        /\ mean_distance_error = EDDMInit.mean_distance_error
        /\ old_mean_distance_error = EDDMInit.old_mean_distance_error
        /\ variance_distance_error = EDDMInit.variance_distance_error
        /\ std_distance_error = EDDMInit.std_distance_error
        /\ distance_threshold = EDDMInit.distance_threshold
        /\ max_distance_threshold = EDDMInit.max_distance_threshold
        /\ ground_truth = EDDMInit.ground_truth
        /\ predictions = EDDMInit.predictions

\* C6: the k-th successful update consumes the k-th registered batch, and
\* the entries left pending are the following ones, in arrival order.
C6_KthUpdateConsumesKthBatch ==
    /\ (Consumed /\ response.status = "ok") => call.popped[1].X = succeeded
    /\ \A i \in 1..Len(delayed_predictions) :
           delayed_predictions[i].X = consumed + i

\* C7: update on a classifier that is not fitted raises the not-fitted error
\* and changes no running-state field, num_instances and the buffer included.
C7_NotFittedChangesNothing ==
    [][(call'.op = "update" /\ ~fitted) =>
          /\ response'.status = "NotFittedError"
          /\ UNCHANGED <<baseVars, eddmVars>>]_vars

C7_Witness ==
    /\ call.op = "update"
    /\ response.status = "NotFittedError"
    /\ delayed_predictions # <<>>

\* C8: update on a fitted classifier with an empty buffer raises and changes
\* no running-state field, num_instances included.
C8_EmptyBufferChangesNothing ==
    [][(call'.op = "update" /\ fitted /\ delayed_predictions = <<>>) =>
          /\ response'.status = "IndexError"
          /\ UNCHANGED <<baseVars, eddmVars>>]_vars

C8_Witness ==
    /\ call.op = "update"
    /\ response.status = "IndexError"
    /\ num_instances > 0

\* C9: every observable configuration has 0 < beta < alpha, level > 0 and
\* min_num_misclassified_instances >= 0.
C9_ConfigurationValid ==
    /\ 0 < config.beta
    /\ config.beta < config.alpha
    /\ config.level > 0
    /\ config.min_num_misclassified_instances >= 0

\* C10: an update after which num_instances < min_num_instances returns
\* drift = false and warning = false.
C10_TooFewInstancesIsNormal ==
    (Consumed /\ num_instances < config.min_num_instances)
        => Returned(FALSE, FALSE)

\* the positions of the consumed batch where prediction # truth (1-based)
MisclassifiedPositions(c) ==
    {i \in 1..Len(c.y) : c.popped[1].y_pred[i] # c.y[i]}

\* the values of y at the positions of S, in batch order
RECURSIVE Restrict(_, _, _)
Restrict(y, S, i) ==
    IF i > Len(y) THEN <<>>
    ELSE IF i \in S THEN <<y[i]>> \o Restrict(y, S, i + 1)
    ELSE Restrict(y, S, i + 1)

\* C11: every update that passes the fitted and non-empty-buffer checks
\* returns a response whose distance_threshold, max_distance_threshold,
\* mean_distance_error and std_distance_error are defined and equal to the
\* detector's state at return, the first update after construction or
\* reset that short-circuits included.
C11_ResponseAlwaysPopulated ==
    Consumed =>
        /\ response.status = "ok"
        /\ response.distance_threshold = distance_threshold
        /\ response.max_distance_threshold = max_distance_threshold
        /\ response.mean_distance_error = mean_distance_error
        /\ std_distance_error # <<>>
        /\ response.std_distance_error = std_distance_error[1]

\* C12: in every reachable state std_distance_error, variance_distance_error,
\* mean_distance_error and distance_threshold are >= 0 and
\* actual_distance_error >= last_distance_error >= 0, and no update ends in
\* the ValueError of a state-field validator.
C12_StatisticsNonNegative ==
    /\ std_distance_error # <<>>
    /\ std_distance_error[1] >= 0
    /\ variance_distance_error >= 0
    /\ mean_distance_error >= 0
    /\ distance_threshold >= 0
    /\ actual_distance_error >= last_distance_error
    /\ last_distance_error >= 0
    /\ response.status # "ValueError"

\* C14: an update increases num_misclassified_instances by exactly the
\* number of positions of its batch where prediction # truth (by nothing
\* when there is none) and what it appends to the history is the batch
\* restricted to exactly those positions; the counter never decreases
\* except by reset and never exceeds num_instances.
C14_CountsMisclassifiedPositions ==
    [][/\ Consumed' =>
            LET mis == MisclassifiedPositions(call')
            IN  /\ num_misclassified_instances'
                       = num_misclassified_instances + Cardinality(mis)
                /\ ground_truth' # ground_truth =>
                       /\ ground_truth'
                              = ground_truth \o Restrict(call'.y, mis, 1)
                       /\ predictions'
                              = predictions
                                \o Restrict(call'.popped[1].y_pred, mis, 1)
       /\ call'.op # "reset" =>
              num_misclassified_instances' >= num_misclassified_instances
       /\ num_misclassified_instances' <= num_instances']_vars

\* the running state, and its value right after construction
RunningState ==
    <<num_instances, ground_truth, predictions, actual_distance_error,
      distance_threshold, last_distance_error, max_distance_threshold,
      mean_distance_error, num_misclassified_instances,
      old_mean_distance_error, variance_distance_error>>

InitialRunningState ==
    <<EDDMInit.num_instances, EDDMInit.ground_truth, EDDMInit.predictions,
      EDDMInit.actual_distance_error, EDDMInit.distance_threshold,
      EDDMInit.last_distance_error, EDDMInit.max_distance_threshold,
      EDDMInit.mean_distance_error, EDDMInit.num_misclassified_instances,
      EDDMInit.old_mean_distance_error, EDDMInit.variance_distance_error>>

\* C13 as stated: once an update has returned drift = true, every later
\* update that returns before the next reset returns drift = true too, and
\* update never puts the running state back to its initial values.
C13_DriftIsTerminal ==
    [][(drift_reported /\ call'.op = "update") =>
          /\ response'.status = "ok" => response'.drift
          /\ RunningState' # InitialRunningState]_vars

\* C13 as amended: update never resets.  After an update has returned
\* drift = true, a later update before the next reset lowers none of
\* num_instances, num_misclassified_instances and max_distance_threshold,
\* keeps std_distance_error assigned and never leaves the running state at
\* its initial values; its response is decided from that state and need not
\* be drift.
C13_UpdateNeverResets ==
    [][(drift_reported /\ call'.op = "update") =>
          /\ num_instances' >= num_instances
          /\ num_misclassified_instances' >= num_misclassified_instances
          /\ max_distance_threshold' >= max_distance_threshold
          /\ std_distance_error' # <<>>
          /\ RunningState' # InitialRunningState]_vars

C13_Witness ==
    /\ drift_reported
    /\ Consumed
    /\ Returned(FALSE, FALSE)

\* C15: in scenario C (misclassified positions 5, 40, 41, 42 of a stream of
\* single-instance batches, both minimum counts 2) every update before the
\* one for position 41 returns normal and the update for position 41
\* returns warning = true or drift = true.
C15_ScenarioCFirstAlarmAt41 ==
    Consumed =>
        LET position == num_instances - 1
        IN  /\ position < 41 => Returned(FALSE, FALSE)
            /\ position = 41 =>
                   /\ response.status = "ok"
                   /\ response.drift \/ response.warning

\* the update past the short-circuit: the Welford step was applied
PastShortCircuit(c) ==
    /\ c.op = "update"
    /\ c.popped # <<>>
    /\ c.path \notin {"non_misclassified", "raise"}

\* the update reached the threshold step
ThresholdStep(c) == c.op = "update" /\ c.path \in {"new_maximum", "check_case"}

\* C16: an update past both minimum-count guards whose fallback did not
\* report drift completion sets distance_threshold to mean_distance_error
\* + level * std_distance_error; if that exceeds max_distance_threshold the
\* maximum becomes it and the response is normal with no zone ratio and no
\* hook, otherwise the maximum is unchanged and the zone decision is made.
\* With the maximum still at negative infinity the response is normal.
C16_ThresholdStep ==
    [][LET passed == /\ PastShortCircuit(call')
                     /\ num_instances' >= config.min_num_instances
                     /\ num_misclassified_instances'
                            >= config.min_num_misclassified_instances
                     /\ ~DriftCompleted(call'.fallback)
           threshold == mean_distance_error'
                        + DivRound(config.level * std_distance_error'[1], SCALE)
       IN  /\ passed <=> ThresholdStep(call')
           /\ ThresholdStep(call') =>
                  /\ distance_threshold' = threshold
                  /\ IF threshold > max_distance_threshold
                     THEN /\ max_distance_threshold' = threshold
                          /\ call'.path = "new_maximum"
                          /\ call'.p = <<>>
                          /\ call'.hook = "none"
                          /\ response'.status = "ok"
                          /\ ~response'.drift /\ ~response'.warning
                     ELSE /\ max_distance_threshold' = max_distance_threshold
                          /\ call'.path = "check_case"
                          /\ call'.p # <<>>
                          /\ call'.hook # "none"
                  /\ max_distance_threshold = NegInf =>
                         /\ response'.status = "ok"
                         /\ ~response'.drift /\ ~response'.warning]_vars

C16_Witness ==
    /\ call.op = "update"
    /\ call.path = "new_maximum"
    /\ std_distance_error[1] > 0
    /\ max_distance_threshold = distance_threshold
    /\ Returned(FALSE, FALSE)

\* the consumed batch has a position where prediction # truth
HasMisclassification(c) ==
    /\ c.op = "update"
    /\ c.popped # <<>>
    /\ MisclassifiedPositions(c) # {}

\* the 0-based stream index of the last misclassified position of the
\* batch consumed by the step, the batch starting at index num_instances
LastMisclassifiedIndex(before, c) ==
    LET mis == MisclassifiedPositions(c)
    IN  before + (CHOOSE i \in mis : \A j \in mis : j <= i) - 1

\* C17: after an update whose batch holds a misclassification,
\* last_distance_error is the previous actual_distance_error and
\* actual_distance_error is num_instances - 1, the stream index of the most
\* recent misclassified instance; the distance fed to the Welford update of
\* the mean is actual_distance_error - last_distance_error.
C17_DistanceBetweenMisclassifications ==
    [][HasMisclassification(call') =>
          /\ last_distance_error' = actual_distance_error
          /\ actual_distance_error' = num_instances' - 1
          /\ actual_distance_error'
                 = LastMisclassifiedIndex(num_instances, call')
          /\ num_misclassified_instances' > 0
          /\ mean_distance_error'
                 = mean_distance_error
                   + DivRound((actual_distance_error' - last_distance_error')
                              * SCALE - mean_distance_error,
                              num_misclassified_instances')]_vars

\* the update returned at one of the two minimum-count guards
EarlyReturn(c) ==
    c.op = "update" /\ c.path \in {"min_num_instances", "min_num_misclassified"}

\* C18: an update past the short-circuit that ends with num_instances
\* < min_num_instances, or with num_misclassified_instances
\* < min_num_misclassified_instances and no drift completion reported by
\* the fallback, returns at that guard: the response is normal, the Welford
\* step was applied (counter, last / actual distance error, old mean, std)
\* and distance_threshold and max_distance_threshold are unchanged.  The
\* history grows exactly in the updates past the short-circuit with
\* num_instances >= min_num_instances whose fallback did not report drift
\* completion.
C18_EarlyReturnAppliesWelford ==
    [][/\ (/\ PastShortCircuit(call')
           /\ \/ num_instances' < config.min_num_instances
              \/ /\ num_misclassified_instances'
                        < config.min_num_misclassified_instances
                 /\ ~DriftCompleted(call'.fallback))
          => EarlyReturn(call')
       /\ EarlyReturn(call')
          => /\ response'.status = "ok"
             /\ ~response'.drift /\ ~response'.warning
             /\ num_misclassified_instances' > num_misclassified_instances
             /\ last_distance_error' = actual_distance_error
             /\ actual_distance_error' = num_instances' - 1
             /\ old_mean_distance_error' = mean_distance_error
             /\ std_distance_error' # <<>>
             /\ UNCHANGED <<distance_threshold, max_distance_threshold>>
       /\ (call'.op = "update"
              /\ <<ground_truth, predictions>>' # <<ground_truth, predictions>>)
          <=> (/\ PastShortCircuit(call')
               /\ num_instances' >= config.min_num_instances
               /\ ~DriftCompleted(call'.fallback))]_vars

C18_Witness ==
    /\ call.op = "update"
    /\ call.path = "min_num_misclassified"
    /\ num_misclassified_instances > 0
    /\ mean_distance_error > 0
    /\ ground_truth # <<>>
    /\ max_distance_threshold = NegInf

\* C19: in an update past the short-circuit the min_num_instances guard
\* comes first: with num_instances < min_num_instances the update returns
\* normal whatever the fallback would report.  Otherwise, when the fallback
\* reports drift completion, the update returns drift = true, warning =
\* true at once, also with num_misclassified_instances below
\* min_num_misclassified_instances, without a zone ratio or hook and with
\* distance_threshold, max_distance_threshold and the history unchanged.
C19_GuardOrdering ==
    [][PastShortCircuit(call') =>
          /\ num_instances' < config.min_num_instances =>
                 /\ call'.path = "min_num_instances"
                 /\ response'.status = "ok"
                 /\ ~response'.drift /\ ~response'.warning
          /\ (/\ num_instances' >= config.min_num_instances
              /\ DriftCompleted(call'.fallback)) =>
                 /\ call'.path = "insufficient_samples"
                 /\ response'.status = "ok"
                 /\ response'.drift /\ response'.warning
                 /\ call'.p = <<>>
                 /\ call'.hook = "none"
                 /\ UNCHANGED <<distance_threshold, max_distance_threshold,
                                ground_truth, predictions>>
          /\ call'.path = "insufficient_samples" =>
                 /\ num_instances' >= config.min_num_instances
                 /\ DriftCompleted(call'.fallback)]_vars

C19_Witness ==
    /\ call.op = "update"
    /\ call.path = "insufficient_samples"
    /\ num_instances >= config.min_num_instances
    /\ num_misclassified_instances < config.min_num_misclassified_instances
    /\ Returned(TRUE, TRUE)

\* C20: the zone ratio p is only computed with max_distance_threshold
\* finite and strictly positive and distance_threshold <= it, so p is a
\* number with 0 < p <= 1; and whenever max_distance_threshold is finite,
\* distance_threshold <= max_distance_threshold.
C20_ZoneRatioWellDefined ==
    /\ ZoneDecision =>
           /\ max_distance_threshold # NegInf
           /\ max_distance_threshold > 0
           /\ distance_threshold <= max_distance_threshold
           /\ call.p[1] # NaN
           /\ 0 < call.p[1]
           /\ call.p[1] <= SCALE
    /\ max_distance_threshold # NegInf =>
           distance_threshold <= max_distance_threshold

C20_Witness ==
    /\ ZoneDecision
    /\ config.min_num_instances = 0
    /\ config.min_num_misclassified_instances = 0
    /\ max_distance_threshold > 0
    /\ call.p[1] > 0
    /\ call.p[1] <= SCALE

====
